---- MODULE Spec2Model ----
(***************************************************************************)
(* A model of scripts/d4xx_to_mavlink.py: the depth camera to MAVLink      *)
(* bridge.  The main thread connects to the vehicle and the camera, starts *)
(* the keyboard thread and the background scheduler, and then loops:       *)
(* wait for a frame, stamp the time, filter, and rewrite the shared array  *)
(* `distances` in place.  The scheduler's job reads `current_time_us` and  *)
(* `distances` with no synchronisation (the module-level `lock` is never   *)
(* acquired) and hands one message to the vehicle link.                    *)
(***************************************************************************)
EXTENDS Integers, Sequences, FiniteSets, TLC

(***************************************************************************)
(* Bounds of the model (not values of the program).                        *)
(***************************************************************************)
\* accepted frames (acquisition cycles) in one run
MaxCycles == 2
\* scheduler ticks in one run
MaxTicks == 2
\* operator interrupts (Ctrl-C) in one run
MaxInterrupts == 1
\* failed attempts (errors, empty frames, connection retries) in one run
MaxFaults == 1
\* the thread that serialises a message can be preempted after every
\* SectorsPerStep of its 72 sectors
SectorsPerStep == 36
\* the lines the operator types
MaxInputs == 1

(***************************************************************************)
(* Program constants, lines 49-61.                                         *)
(***************************************************************************)
WIDTH == 640
HEIGHT == 480
HFOV == 87
DISTANCES_ARRAY_LEN == 72

Sectors == 0 .. DISTANCES_ARRAY_LEN - 1

(***************************************************************************)
(* IEEE-754 binary64 arithmetic, as far as the program uses it.  A double  *)
(* x > 0 is [m, e] with x = m * 2^e and 2^52 <= m < 2^53; m is held as     *)
(* five base-2^14 limbs, least significant first, so that every product    *)
(* stays inside TLC's 32-bit integers.  0.0 is the all-zero mantissa with  *)
(* the least exponent.                                                     *)
(***************************************************************************)
Limb == 2^14

NoLimbs == <<0, 0, 0, 0, 0>>

FZero == [m |-> NoLimbs, e |-> -1074]

\* m * k for 0 <= k < 2^16, with the carry into limb i
RECURSIVE MulSmallFrom(_, _, _, _)
MulSmallFrom(m, k, i, carry) ==
    IF i > 5 THEN <<>>
    ELSE LET p == m[i] * k + carry
         IN  <<p % Limb>> \o MulSmallFrom(m, k, i + 1, p \div Limb)

MulSmall(m, k) == MulSmallFrom(m, k, 1, 0)

\* m + 1
RECURSIVE AddOneFrom(_, _, _)
AddOneFrom(m, i, carry) ==
    IF i > 5 THEN <<>>
    ELSE LET p == m[i] + carry
         IN  <<p % Limb>> \o AddOneFrom(m, i + 1, p \div Limb)

AddOne(m) == AddOneFrom(m, 1, 1)

\* m \div 2^t for 0 <= t < 14
ShrBits(m, t) ==
    [i \in 1 .. 5 |->
        (m[i] \div 2^t) + (IF i < 5 THEN (m[i + 1] % 2^t) * 2^(14 - t) ELSE 0)]

\* m \div 2^t
RECURSIVE Shr(_, _)
Shr(m, t) ==
    IF t >= 14 THEN Shr(<<m[2], m[3], m[4], m[5], 0>>, t - 14)
    ELSE ShrBits(m, t)

\* m % 2^t for 0 <= t <= 16
LowBits(m, t) ==
    IF t <= 14 THEN m[1] % 2^t ELSE m[1] + (m[2] % 2^(t - 14)) * Limb

\* m >= 2^53: more than the 53 bits of a double's mantissa
TooWide(m) == m[5] > 0 \/ m[4] >= 2^11

\* how many bits m < 2^69 has beyond 53
ExtraBits(m) ==
    LET top == m[5] * Limb + m[4]
    IN  CHOOSE t \in 0 .. 16 :
            /\ top < 2^(11 + t)
            /\ t = 0 \/ top >= 2^(10 + t)

\* Round m * 2^e (2^52 <= m < 2^69) to the nearest double, ties to even:
\* the t extra bits are cut off, and the mantissa goes up by one when they
\* are more than half of its last place, or just half and the mantissa odd.
RoundNearestEven(m, e) ==
    LET t == ExtraBits(m)
        q == Shr(m, t)
        low == LowBits(m, t)
        half == IF t = 0 THEN 1 ELSE 2^(t - 1)
        up == t > 0 /\ (low > half \/ (low = half /\ q[1] % 2 = 1))
        r == IF up THEN AddOne(q) ELSE q
    IN  IF TooWide(r) THEN [m |-> ShrBits(r, 1), e |-> e + t + 1]
                      ELSE [m |-> r, e |-> e + t]

\* the double x * k for an integer 0 <= k < 2^16 (k converts exactly)
FMul(x, k) ==
    IF k = 0 \/ x.m = NoLimbs THEN FZero
    ELSE RoundNearestEven(MulSmall(x.m, k), x.e)

\* m \div b and m % b for 0 < b < 2^14, from limb i down, with the
\* remainder carried into limb i
RECURSIVE DivSmallFrom(_, _, _, _)
DivSmallFrom(m, b, i, rem) ==
    IF i = 0 THEN [q |-> <<>>, r |-> rem]
    ELSE LET cur == rem * Limb + m[i]
             rest == DivSmallFrom(m, b, i - 1, cur % b)
         IN  [q |-> Append(rest.q, cur \div b), r |-> rest.r]

\* the double a / b for integers 0 < a < 2^13 and 0 < b <= 4 * a (both
\* convert exactly): a * 2^56 is divided by b, a remainder is kept as a last
\* bit so that the rounding sees it, and the quotient is rounded to 53 bits
FDiv(a, b) ==
    LET d == DivSmallFrom(<<0, 0, 0, 0, a>>, b, 5, 0)
        q == IF d.r # 0 /\ d.q[1] % 2 = 0 THEN [d.q EXCEPT ![1] = @ + 1] ELSE d.q
    IN  RoundNearestEven(q, -56)

\* m1 < m2, most significant limb first
RECURSIVE LimbsLess(_, _, _)
LimbsLess(m1, m2, i) ==
    IF i = 0 THEN FALSE
    ELSE IF m1[i] # m2[i] THEN m1[i] < m2[i]
    ELSE LimbsLess(m1, m2, i - 1)

\* x < y for doubles x, y >= 0
FLess(x, y) ==
    IF x.e # y.e THEN x.e < y.e ELSE LimbsLess(x.m, y.m, 5)

\* the integer part of a double 0 <= x < 2^28 (what a cast to an integer
\* type keeps)
FTrunc(x) ==
    IF x.e <= -53 THEN 0
    ELSE LET s == Shr(x.m, 0 - x.e)
         IN  s[1] + s[2] * Limb

\* a cast to numpy's uint16
Uint16(n) == n % 65536

(***************************************************************************)
(* DEPTH_RANGE = [0.1, 8.0], line 53, as doubles:                          *)
(*   0.1 = 7205759403792794 * 2^-56,  8.0 = 2^52 * 2^-49.                  *)
(***************************************************************************)
DEPTH_RANGE ==
    << [m |-> <<6554, 9830, 6553, 1638, 0>>, e |-> -56],
       [m |-> <<0, 0, 0, 1024, 0>>, e |-> -49] >>

\* lines 57-58: int(DEPTH_RANGE[k] * 100)
MIN_DEPTH_CM == FTrunc(FMul(DEPTH_RANGE[1], 100))

MAX_DEPTH_CM == FTrunc(FMul(DEPTH_RANGE[2], 100))

\* line 60, mutated: the sign is lost
ANGLE_OFFSET_Positive == [sign |-> 1, abs |-> FDiv(HFOV, 2)]

\* line 60: -(HFOV / 2), a negative double: its sign and its magnitude
ANGLE_OFFSET == [sign |-> -1, abs |-> FDiv(HFOV, 2)]

\* line 61: HFOV / DISTANCES_ARRAY_LEN
INCREMENT_F == FDiv(HFOV, DISTANCES_ARRAY_LEN)

\* line 62: np.ones((72,), dtype=np.uint16) * (MAX_DEPTH_CM + 1)
InitialDistances == [i \in Sectors |-> Uint16(1 * (MAX_DEPTH_CM + 1))]

(***************************************************************************)
(* The depth scales a device reports (get_depth_scale, line 334): one      *)
(* millimetre per unit, as the double 0.001 and as the C float 0.001       *)
(* widened to a double:                                                    *)
(*   0.001                 = 4611686018427388 * 2^-62,                     *)
(*   0.0010000000474974513 = 4611686237470720 * 2^-62.                     *)
(***************************************************************************)
Scale_1mm == [m |-> <<10748, 3014, 9437, 1048, 0>>, e |-> -62]

Scale_1mm_f32 == [m |-> <<0, 0, 9438, 1048, 0>>, e |-> -62]

DepthScales == {Scale_1mm, Scale_1mm_f32}

\* line 334: get_depth_scale returns the device's single-precision scale,
\* which Python holds widened to a double
DeviceScales == {Scale_1mm_f32}

(***************************************************************************)
(* Depth images.  A frame is height x width raw 16-bit samples; the frames *)
(* of the model carry `left` left of column `split` and `right` from it on *)
(* in the row `band`, and `off` in every other row.                        *)
(***************************************************************************)
Frame(w, h, band, left, right, split, off) ==
    [width |-> w, height |-> h, band |-> band, left |-> left, right |-> right,
     split |-> split, off |-> off]

NoFrame == Frame(0, 0, 0, 0, 0, 0, 0)

\* depth_mat[row, col]
Pixel(depth_mat, row, col) ==
    IF row # depth_mat.band THEN depth_mat.off
    ELSE IF col < depth_mat.split THEN depth_mat.left
    ELSE depth_mat.right

\* a frame of the configured size, and one after the decimation filter has
\* halved it, with the samples in the centre row
Full(left, right, split) == Frame(WIDTH, HEIGHT, HEIGHT \div 2, left, right, split, 0)

Half(left, right, split) ==
    Frame(WIDTH \div 2, HEIGHT \div 2, HEIGHT \div 4, left, right, split, 0)

\* the frame the filters put out in acquisition cycle c of a run of the whole
\* program: a full frame at 2 m, then decimated frames with a near object on
\* the left and 1.007 m elsewhere
FrameAt(c) == IF c = 1 THEN Full(2000, 2000, 0) ELSE Half(50, 1007, 100)

\* pairs of raw samples around the limits of DEPTH_RANGE: no data, too
\* near, the limits themselves, in range, too far
SamplePairs ==
    {<<2000, 2000>>, <<9000, 9000>>, <<0, 65535>>, <<50, 99>>, <<100, 290>>,
     <<1007, 2005>>, <<8000, 8001>>, <<7999, 4890>>}

\* the frames the extraction is tried on by itself
ExtractFrames ==
    {Full(p[1], p[2], 320) : p \in SamplePairs}
        \cup {Half(p[1], p[2], 100) : p \in {<<2000, 2000>>, <<50, 1007>>, <<290, 9000>>}}

(***************************************************************************)
(* distances_from_depth_image, lines 359-369.                              *)
(***************************************************************************)
\* line 361, 363, 365: int(i * step) with step = width / DISTANCES_ARRAY_LEN.
\* For the widths of the model (640, 320) the double product i * step
\* truncates to the same column as the exact quotient.
SampleCol(depth_mat, i) == (i * depth_mat.width) \div DISTANCES_ARRAY_LEN

\* line 362, 365: int(depth_img_height / 2)
SampleRow(depth_mat) == depth_mat.height \div 2

\* line 365: depth_mat[row, col] * depth_scale
DistM(depth_mat, i, scale) ==
    FMul(scale, Pixel(depth_mat, SampleRow(depth_mat), SampleCol(depth_mat, i)))

\* line 366, mutated: the lower limit is not checked
OutOfRange_NoMin(dist_m, min_depth_m, max_depth_m) == FLess(max_depth_m, dist_m)

\* line 366: dist_m < min_depth_m or dist_m > max_depth_m
OutOfRange(dist_m, min_depth_m, max_depth_m) ==
    FLess(dist_m, min_depth_m) \/ FLess(max_depth_m, dist_m)

\* line 367, mutated: the computed distance is stored
SentinelCm_Computed(dist_m, max_depth_m) == Uint16(FTrunc(FMul(dist_m, 100)))

\* line 367: max_depth_m * 100 + 1, stored into a uint16 (the sum of the
\* integral double 800.0 and 1 is exact)
SentinelCm(dist_m, max_depth_m) == Uint16(FTrunc(FMul(max_depth_m, 100)) + 1)

\* line 369: dist_m * 100, stored into a uint16: the cast drops the fraction
InRangeCm(dist_m) == Uint16(FTrunc(FMul(dist_m, 100)))

\* lines 365-369: what one pass of the loop stores in distances[i]
SectorValue(depth_mat, i, scale, min_depth_m, max_depth_m) ==
    LET dist_m == DistM(depth_mat, i, scale)
    IN  IF OutOfRange(dist_m, min_depth_m, max_depth_m)
        THEN SentinelCm(dist_m, max_depth_m)
        ELSE InRangeCm(dist_m)

\* lines 364-369 for the sectors lo .. hi - 1, the others as they were
ExtractSectors(depth_mat, old, scale, min_depth_m, max_depth_m, lo, hi) ==
    [i \in Sectors |->
        IF lo <= i /\ i < hi
        THEN SectorValue(depth_mat, i, scale, min_depth_m, max_depth_m)
        ELSE old[i]]

\* the whole call
distances_from_depth_image(depth_mat, old, scale, min_depth_m, max_depth_m) ==
    ExtractSectors(depth_mat, old, scale, min_depth_m, max_depth_m,
                   0, DISTANCES_ARRAY_LEN)

(***************************************************************************)
(* The state of the program.                                               *)
(***************************************************************************)
VARIABLES
    pc,                            \* where the main thread is
    enable_msg_obstacle_distance,  \* line 88
    enable_msg_distance_sensor,    \* line 89
    vehicle,                       \* line 115: "None", "open" or "closed"
    is_vehicle_connected,          \* line 116
    pipe,                          \* line 119: "None", "created", "started", "stopped"
    depth_scale,                   \* line 120
    distances,                     \* line 62: the shared array
    current_time_us,               \* line 126
    depth_mat,                     \* the filtered frame of this iteration
    now,                           \* time.time(), in microseconds
    sched_running,                 \* sched.start() was called
    job,                           \* the job added to sched: "none", "obstacle", "sensor"
    input_thread_started,          \* user_keyboard_input_thread.start() was called
    job_pc,                        \* where the scheduler's job is
    msg,                           \* the message the job is building
    job_i,                         \* the sector the job's serialisation is at
    last_msg,                      \* the last message handed to the vehicle link
    sent,                          \* how many distance messages were handed to it
    gcs_log,                       \* the status texts handed to it, in order
    raised,                        \* the exception that ended the main loop
    exit_code,                     \* the process's status: -1 while it runs, the
                                   \* negated signal number when a signal ended it
    cycle,                         \* accepted frames so far
    stamp_cycle,                   \* the cycle that wrote current_time_us
    written_by,                    \* per sector, the cycle that wrote it last
    extracted,                     \* completed calls of distances_from_depth_image
    swallowed,                     \* interrupts that were caught and dropped
    interrupts,                    \* interrupts delivered so far
    faults,                        \* failed attempts so far
    ticks,                         \* scheduler ticks so far
    enable_auto_set_ekf_home,      \* line 93
    in_pc,                         \* where the keyboard thread is
    inputs,                        \* lines the operator has typed so far
    auto_fired,                    \* times line 342 ran (the automatic trigger)
    enter_fired,                   \* times line 352 ran (the Enter trigger)
    origin_sent,                   \* SET_GPS_GLOBAL_ORIGIN messages handed to the link
    home_sent,                     \* SET_HOME_POSITION messages handed to the link
    dropped,                       \* ticks whose job raised before its message left
    dropped_tick                   \* the tick of the last such job, 0 if none

config == <<enable_msg_obstacle_distance, enable_msg_distance_sensor>>

conn == <<vehicle, is_vehicle_connected, pipe, depth_scale>>

shared == <<distances, current_time_us>>

acq == <<depth_mat, now>>

units == <<sched_running, job, input_thread_started>>

jobvars == <<job_pc, msg, job_i>>

link == <<last_msg, sent, gcs_log>>

ending == <<raised, exit_code>>

ghost == <<cycle, stamp_cycle, written_by, extracted, swallowed>>

counters == <<interrupts, faults, ticks>>

input == <<enable_auto_set_ekf_home, in_pc, inputs, auto_fired, enter_fired,
           origin_sent, home_sent>>

drops == <<dropped, dropped_tick>>

vars == <<pc, config, input, drops, conn, shared, acq, units, jobvars, link, ending,
          ghost, counters>>

\* a message of the scheduler's job; time_cycle and sector_cycle record the
\* cycles its timestamp and its elements come from
NoSectors == [i \in Sectors |-> 0]

NoMsg ==
    [kind |-> "none", time_usec |-> 0, distances |-> NoSectors,
     min_distance |-> 0, max_distance |-> 0, current_distance |-> 0,
     increment_f |-> FZero, angle_offset |-> [sign |-> 1, abs |-> FZero],
     time_cycle |-> 0, sector_cycle |-> NoSectors]

(***************************************************************************)
(* The settings of lines 88, 89 and 93 a run of the whole program starts   *)
(* from: every setting of the two message flags with the automatic home   *)
(* off, as shipped, and the forward-distance job and no job with the       *)
(* automatic home on.                                                      *)
(***************************************************************************)
Configurations ==
    {<<TRUE, FALSE, FALSE>>, <<TRUE, TRUE, FALSE>>, <<FALSE, TRUE, FALSE>>,
     <<FALSE, FALSE, FALSE>>, <<FALSE, TRUE, TRUE>>, <<FALSE, FALSE, TRUE>>}

(***************************************************************************)
(* The state after the module-level definitions, lines 47-177.             *)
(***************************************************************************)
Init ==
    /\ pc = "start"
    /\ \E c \in Configurations :
          /\ enable_msg_obstacle_distance = c[1]
          /\ enable_msg_distance_sensor = c[2]
          /\ enable_auto_set_ekf_home = c[3]
    /\ vehicle = "None"
    /\ is_vehicle_connected = FALSE
    /\ pipe = "None"
    /\ depth_scale = FZero
    /\ distances = InitialDistances
    /\ current_time_us = 0
    /\ depth_mat = NoFrame
    /\ now = 1
    /\ sched_running = FALSE
    /\ job = "none"
    /\ input_thread_started = FALSE
    /\ job_pc = "idle"
    /\ msg = NoMsg
    /\ job_i = 0
    /\ last_msg = NoMsg
    /\ sent = 0
    /\ gcs_log = <<>>
    /\ raised = "none"
    /\ exit_code = -1
    /\ cycle = 0
    /\ stamp_cycle = 0
    /\ written_by = NoSectors
    /\ extracted = 0
    /\ swallowed = 0
    /\ interrupts = 0
    /\ faults = 0
    /\ ticks = 0
    /\ in_pc = "not_started"
    /\ inputs = 0
    /\ auto_fired = 0
    /\ enter_fired = 0
    /\ origin_sent = 0
    /\ home_sent = 0
    /\ dropped = 0
    /\ dropped_tick = 0

(***************************************************************************)
(* send_msg_to_gcs, lines 222-236: the text goes to the link only while    *)
(* is_vehicle_connected is set.                                            *)
(***************************************************************************)
send_msg_to_gcs(text_to_be_sent) ==
    IF is_vehicle_connected
    THEN Append(gcs_log, text_to_be_sent)
    ELSE gcs_log

(***************************************************************************)
(* Startup, lines 375-410.                                                 *)
(***************************************************************************)
\* lines 375-376: the print and the test of the while loop, which calls
\* vehicle_connect; both are outside the try statement of line 305
CallVehicleConnect ==
    /\ pc = "start"
    /\ pc' = "vehicle_connect"
    /\ UNCHANGED <<config, input, drops, conn, shared, acq, units, jobvars, link, ending,
                   ghost, counters>>

\* lines 305-306: connect() returns a vehicle and the try statement ends
VehicleConnectOk ==
    /\ pc = "vehicle_connect"
    /\ vehicle' = "open"
    /\ pc' = "connect_check"
    /\ UNCHANGED <<config, input, drops, is_vehicle_connected, pipe, depth_scale, shared, acq,
                   units, jobvars, link, ending, ghost, counters>>

\* lines 311, 314-316, 376-378: vehicle is not None: the flag is set, True is
\* returned and the while loop ends
VehicleConnected ==
    /\ pc = "connect_check"
    /\ is_vehicle_connected' = TRUE
    /\ pc' = "msg_connecting"
    /\ UNCHANGED <<config, input, drops, vehicle, pipe, depth_scale, shared, acq, units,
                   jobvars, link, ending, ghost, counters>>

\* lines 306-309: connect() raises and the bare except catches it
VehicleConnectError ==
    /\ pc = "vehicle_connect"
    /\ faults < MaxFaults
    /\ faults' = faults + 1
    /\ pc' = "connect_sleep"
    /\ UNCHANGED <<config, input, drops, conn, shared, acq, units, jobvars, link, ending, ghost,
                   interrupts, ticks>>

\* lines 309-313: after the sleep vehicle is still None: the flag is cleared
\* and False is returned to the test of line 376
VehicleConnectRetry ==
    /\ pc = "connect_sleep"
    /\ is_vehicle_connected' = FALSE
    /\ pc' = "start"
    /\ UNCHANGED <<config, input, drops, vehicle, pipe, depth_scale, shared, acq, units, jobvars,
                   link, ending, ghost, counters>>

\* line 380
MsgConnecting ==
    /\ pc = "msg_connecting"
    /\ gcs_log' = send_msg_to_gcs("Connecting to camera...")
    /\ pc' = "realsense_connect"
    /\ UNCHANGED <<config, input, drops, conn, shared, acq, units, jobvars, last_msg, sent,
                   ending, ghost, counters>>

\* lines 381, 321-327: the pipeline object is made and the streams are
\* configured; nothing is started yet
RealsensePipeCreate ==
    /\ pc = "realsense_connect"
    /\ pipe' = "created"
    /\ pc' = "pipe_start"
    /\ UNCHANGED <<config, input, drops, vehicle, is_vehicle_connected, depth_scale, shared,
                   acq, units, jobvars, link, ending, ghost, counters>>

\* line 330: pipe.start returns
RealsensePipeStart ==
    /\ pc = "pipe_start"
    /\ pipe' = "started"
    /\ pc' = "get_depth_scale"
    /\ UNCHANGED <<config, input, drops, vehicle, is_vehicle_connected, depth_scale, shared,
                   acq, units, jobvars, link, ending, ghost, counters>>

\* lines 333-335: the device tells its scale and realsense_connect returns
RealsenseConnectOk ==
    /\ pc = "get_depth_scale"
    /\ depth_scale' \in DeviceScales
    /\ pc' = "msg_connected"
    /\ UNCHANGED <<config, input, drops, vehicle, is_vehicle_connected, pipe, shared, acq,
                   units, jobvars, link, ending, ghost, counters>>

\* lines 381, 330: pipe.start raises; nothing catches it at line 381, so the
\* interpreter ends with status 1 and the pipeline never started
RealsenseConnectError ==
    /\ pc = "pipe_start"
    /\ faults < MaxFaults
    /\ faults' = faults + 1
    /\ pipe' = "created"
    /\ raised' = "RuntimeError"
    /\ exit_code' = 1
    /\ pc' = "exited"
    /\ UNCHANGED <<config, input, drops, vehicle, is_vehicle_connected, depth_scale, shared, acq,
                   units, jobvars, link, ghost, interrupts, ticks>>

\* line 382
MsgConnected ==
    /\ pc = "msg_connected"
    /\ gcs_log' = send_msg_to_gcs("Camera connected.")
    /\ pc' = "thread_start"
    /\ UNCHANGED <<config, input, drops, conn, shared, acq, units, jobvars, last_msg, sent,
                   ending, ghost, counters>>

\* lines 385-390
ThreadStart ==
    /\ pc = "thread_start"
    /\ input_thread_started' = TRUE
    /\ in_pc' = "top"
    /\ pc' = "sched_start"
    /\ UNCHANGED <<config, enable_auto_set_ekf_home, inputs, auto_fired,
                   enter_fired, origin_sent, home_sent, drops, conn, shared, acq,
                   sched_running, job, jobvars, link, ending, ghost, counters>>

\* line 392
SchedStart ==
    /\ pc = "sched_start"
    /\ sched_running' = TRUE
    /\ pc' = "add_job"
    /\ UNCHANGED <<config, input, drops, conn, shared, acq, job, input_thread_started, jobvars,
                   link, ending, ghost, counters>>

\* lines 394-401, mutated: the obstacle job is added whatever the flags say
JobToAdd_Always == "obstacle"

\* lines 394-401: which job the flags select
JobToAdd ==
    IF enable_msg_obstacle_distance THEN "obstacle"
    ELSE IF enable_msg_distance_sensor THEN "sensor"
    ELSE "none"

\* lines 394-395: the running scheduler is given the obstacle job, which may
\* fire from now on
AddObstacleJob ==
    /\ pc = "add_job"
    /\ JobToAdd = "obstacle"
    /\ job' = "obstacle"
    /\ pc' = "msg_sending"
    /\ UNCHANGED <<config, input, drops, conn, shared, acq, sched_running, input_thread_started,
                   jobvars, link, ending, ghost, counters>>

\* lines 397-398: the running scheduler is given the forward-distance job
AddSensorJob ==
    /\ pc = "add_job"
    /\ JobToAdd = "sensor"
    /\ job' = "sensor"
    /\ pc' = "msg_sending"
    /\ UNCHANGED <<config, input, drops, conn, shared, acq, sched_running, input_thread_started,
                   jobvars, link, ending, ghost, counters>>

\* lines 396 and 399: the text that names the job that was added
MsgSending ==
    /\ pc = "msg_sending"
    /\ gcs_log' = send_msg_to_gcs(IF job = "obstacle"
                                  THEN "Sending obstacle distance messages to FCU"
                                  ELSE "Sending distance sensor messages to FCU")
    /\ pc' = "enter_loop"
    /\ UNCHANGED <<config, input, drops, conn, shared, acq, units, jobvars, last_msg, sent,
                   ending, ghost, counters>>

\* lines 407-412: the print, last_time, and the entry into the try statement
EnterLoop ==
    /\ pc = "enter_loop"
    /\ pc' = "wait_for_frames"
    /\ UNCHANGED <<config, input, drops, conn, shared, acq, units, jobvars, link, ending,
                   ghost, counters>>

\* lines 400-401
NothingToDo ==
    /\ pc = "add_job"
    /\ JobToAdd = "none"
    /\ gcs_log' = send_msg_to_gcs("Nothing to do. Check params to enable something")
    /\ pc' = "nothing_pipe_stop"
    /\ UNCHANGED <<config, input, drops, conn, shared, acq, units, jobvars, last_msg, sent,
                   ending, ghost, counters>>

\* line 402
NothingPipeStop ==
    /\ pc = "nothing_pipe_stop"
    /\ pipe' = "stopped"
    /\ pc' = "nothing_vehicle_close"
    /\ UNCHANGED <<config, input, drops, vehicle, is_vehicle_connected, depth_scale, shared, acq,
                   units, jobvars, link, ending, ghost, counters>>

\* line 403
NothingVehicleClose ==
    /\ pc = "nothing_vehicle_close"
    /\ vehicle' = "closed"
    /\ pc' = "nothing_exit"
    /\ UNCHANGED <<config, input, drops, is_vehicle_connected, pipe, depth_scale, shared, acq,
                   units, jobvars, link, ending, ghost, counters>>

\* lines 404-405: sys.exit() with no argument: status 0
NothingExit ==
    /\ pc = "nothing_exit"
    /\ exit_code' = 0
    /\ pc' = "exited"
    /\ UNCHANGED <<config, input, drops, conn, shared, acq, units, jobvars, link, raised, ghost,
                   counters>>

(***************************************************************************)
(* The main loop, lines 411-464.                                           *)
(***************************************************************************)
\* lines 415-418: a frame set with a depth frame arrives
WaitForFramesOk ==
    /\ pc = "wait_for_frames"
    /\ cycle < MaxCycles
    /\ now' = now + 1
    /\ pc' = "timestamp"
    /\ UNCHANGED <<config, input, drops, conn, shared, depth_mat, units, jobvars, link,
                   ending, ghost, counters>>

\* lines 415-422, mutated: the timestamp is taken before the depth frame is
\* looked at
WaitForFramesEmpty_Stamps ==
    /\ pc = "wait_for_frames"
    /\ faults < MaxFaults
    /\ faults' = faults + 1
    /\ now' = now + 1
    /\ current_time_us' = now + 1
    /\ pc' = "wait_for_frames"
    /\ UNCHANGED <<config, input, drops, conn, distances, depth_mat, units, jobvars,
                   link, ending, ghost, interrupts, ticks>>

\* lines 415-419: the frame set has no depth frame: continue
WaitForFramesEmpty ==
    /\ pc = "wait_for_frames"
    /\ faults < MaxFaults
    /\ faults' = faults + 1
    /\ now' = now + 1
    /\ pc' = "wait_for_frames"
    /\ UNCHANGED <<config, input, drops, conn, shared, depth_mat, units, jobvars, link,
                   ending, ghost, interrupts, ticks>>

\* lines 415, 469: no frame arrives in time and wait_for_frames raises
\* RuntimeError, which the try statement hands to `except Exception`
WaitForFramesError ==
    /\ pc = "wait_for_frames"
    /\ faults < MaxFaults
    /\ faults' = faults + 1
    /\ raised' = "RuntimeError"
    /\ pc' = "except_Exception"
    /\ UNCHANGED <<config, input, drops, conn, shared, acq, units, jobvars, link, exit_code,
                   ghost, interrupts, ticks>>

\* line 422
Timestamp ==
    /\ pc = "timestamp"
    /\ current_time_us' = now
    /\ cycle' = cycle + 1
    /\ stamp_cycle' = cycle + 1
    /\ pc' = "filters"
    /\ UNCHANGED <<config, input, drops, conn, distances, acq, units, jobvars, link, ending,
                   written_by, extracted, swallowed, counters>>

\* lines 425-432: the filters are the camera library's; their output is some
\* depth image, here one of `frames`
FiltersFrom(frames) ==
    /\ pc = "filters"
    /\ depth_mat' \in frames
    /\ pc' = "extract"
    /\ UNCHANGED <<config, input, drops, conn, shared, now, units, jobvars, link, ending, ghost,
                   counters>>

\* in a run of the whole program, the frame of the cycle that line 422 began
Filters == FiltersFrom({FrameAt(cycle)})

\* line 435: the call rewrites the shared array in place, with no lock held.
\* The function is compiled by numba (@njit, line 359, without nogil), so the
\* loop of lines 364-369 runs to its end before another Python thread runs.
Extract ==
    /\ pc = "extract"
    /\ distances' = distances_from_depth_image(depth_mat, distances, depth_scale,
                                               DEPTH_RANGE[1], DEPTH_RANGE[2])
    /\ written_by' = [i \in Sectors |-> cycle]
    /\ extracted' = extracted + 1
    /\ pc' = "debug"
    /\ UNCHANGED <<config, input, drops, conn, current_time_us, acq, units, jobvars, link,
                   ending, cycle, stamp_cycle, swallowed, counters>>

\* lines 437-464: the debug window; the loop starts over
Debug ==
    /\ pc = "debug"
    /\ depth_mat' = NoFrame
    /\ pc' = "wait_for_frames"
    /\ UNCHANGED <<config, input, drops, conn, shared, now, units, jobvars, link,
                   ending, ghost, counters>>

(***************************************************************************)
(* The handlers of the try statement and its finally block, lines 466-480. *)
(***************************************************************************)
\* lines 466-467, 226-232: the handler hands its text to the link
ExceptKeyboardInterrupt ==
    /\ pc = "except_KeyboardInterrupt"
    /\ gcs_log' = send_msg_to_gcs("Closing the script...")
    /\ pc' = "except_flush"
    /\ UNCHANGED <<config, input, drops, conn, shared, acq, units, jobvars, last_msg, sent,
                   ending, ghost, counters>>

\* lines 233-236, 467: the flush and the print of send_msg_to_gcs, still
\* inside the handler, which then ends
ExceptFlush ==
    /\ pc = "except_flush"
    /\ pc' = "finally_pipe_stop"
    /\ UNCHANGED <<config, input, drops, conn, shared, acq, units, jobvars, link, ending,
                   ghost, counters>>

\* lines 469-471: print(e); pass
ExceptException ==
    /\ pc = "except_Exception"
    /\ pc' = "finally_pipe_stop"
    /\ UNCHANGED <<config, input, drops, conn, shared, acq, units, jobvars, link, ending, ghost,
                   counters>>

\* line 477
FinallyPipeStop ==
    /\ pc = "finally_pipe_stop"
    /\ pipe' = "stopped"
    /\ pc' = "finally_vehicle_close"
    /\ UNCHANGED <<config, input, drops, vehicle, is_vehicle_connected, depth_scale, shared, acq,
                   units, jobvars, link, ending, ghost, counters>>

\* line 478
FinallyVehicleClose ==
    /\ pc = "finally_vehicle_close"
    /\ vehicle' = "closed"
    /\ pc' = "finally_exit"
    /\ UNCHANGED <<config, input, drops, is_vehicle_connected, pipe, depth_scale, shared, acq,
                   units, jobvars, link, ending, ghost, counters>>

\* lines 479-480: sys.exit() with no argument: status 0, whatever was raised
FinallyExit ==
    /\ pc = "finally_exit"
    /\ exit_code' = 0
    /\ pc' = "exited"
    /\ UNCHANGED <<config, input, drops, conn, shared, acq, units, jobvars, link, raised, ghost,
                   counters>>

(***************************************************************************)
(* The operator's interrupt: Python raises KeyboardInterrupt in the main   *)
(* thread, at the statement the thread is at.                              *)
(***************************************************************************)
\* the statements inside the try statement of lines 411-464
InMainLoop == pc \in {"wait_for_frames", "timestamp", "filters", "extract", "debug"}

\* lines 305-309: inside the try statement of vehicle_connect the bare
\* `except:` catches the interrupt like any connection error, and the while
\* loop of line 376 goes on
InterruptInVehicleConnect ==
    /\ pc = "vehicle_connect"
    /\ interrupts < MaxInterrupts
    /\ interrupts' = interrupts + 1
    /\ swallowed' = swallowed + 1
    /\ pc' = "connect_sleep"
    /\ UNCHANGED <<config, input, drops, conn, shared, acq, units, jobvars, link, ending, cycle,
                   stamp_cycle, written_by, extracted, faults, ticks>>

\* lines 411-466: raised inside the try statement, the interrupt is taken by
\* `except KeyboardInterrupt`
InterruptInMainLoop ==
    /\ InMainLoop
    /\ interrupts < MaxInterrupts
    /\ interrupts' = interrupts + 1
    /\ raised' = "KeyboardInterrupt"
    /\ pc' = "except_KeyboardInterrupt"
    /\ UNCHANGED <<config, input, drops, conn, shared, acq, units, jobvars, link, exit_code,
                   ghost, faults, ticks>>

\* lines 467-476: raised inside a handler, the interrupt ends the handler and
\* the finally block runs
InterruptInHandler ==
    /\ pc \in {"except_KeyboardInterrupt", "except_flush", "except_Exception"}
    /\ interrupts < MaxInterrupts
    /\ interrupts' = interrupts + 1
    /\ raised' = "KeyboardInterrupt"
    /\ pc' = "finally_pipe_stop"
    /\ UNCHANGED <<config, input, drops, conn, shared, acq, units, jobvars, link, exit_code,
                   ghost, faults, ticks>>

\* the statements outside every try statement (lines 375-376, the handler of
\* lines 308-309, lines 311-316, lines 378-410) and those of the finally
\* block (lines 477-480)
OutsideTry ==
    pc \in {"start", "connect_sleep", "connect_check", "msg_connecting",
            "realsense_connect", "pipe_start", "get_depth_scale", "msg_connected",
            "thread_start", "sched_start", "add_job", "msg_sending", "enter_loop",
            "nothing_pipe_stop", "nothing_vehicle_close", "nothing_exit",
            "finally_pipe_stop", "finally_vehicle_close", "finally_exit"}

\* the status of a process that an uncaught KeyboardInterrupt ended: the
\* interpreter prints the traceback and ends itself with the signal SIGINT
KilledBySigint == -2

\* there nothing catches the interrupt and the process ends where it is
InterruptUncaught ==
    /\ OutsideTry
    /\ interrupts < MaxInterrupts
    /\ interrupts' = interrupts + 1
    /\ raised' = "KeyboardInterrupt"
    /\ exit_code' = KilledBySigint
    /\ pc' = "exited"
    /\ UNCHANGED <<config, input, drops, conn, shared, acq, units, jobvars, link, ghost, faults,
                   ticks>>

(***************************************************************************)
(* The scheduler's job, lines 185-220, in a thread of the scheduler's pool *)
(* (a daemon thread: it ends with the process).                            *)
(***************************************************************************)
\* lines 187-197, mutated: the tick does nothing until the main loop has
\* written an array the link has not seen
JobTickObstacle_NeedsFresh ==
    /\ extracted > 0
    /\ last_msg.kind = "none" \/ last_msg.sector_cycle # written_by
    /\ pc # "exited"
    /\ sched_running
    /\ job = "obstacle"
    /\ job_pc = "idle"
    /\ ticks < MaxTicks
    /\ ticks' = ticks + 1
    /\ msg' = [kind |-> "OBSTACLE_DISTANCE", time_usec |-> current_time_us,
               distances |-> NoSectors,
               min_distance |-> MIN_DEPTH_CM, max_distance |-> MAX_DEPTH_CM,
               current_distance |-> 0,
               increment_f |-> INCREMENT_F, angle_offset |-> ANGLE_OFFSET,
               time_cycle |-> stamp_cycle, sector_cycle |-> NoSectors]
    /\ job_i' = 0
    /\ job_pc' = "send_mavlink"
    /\ UNCHANGED <<pc, config, input, drops, conn, shared, acq, units, link, ending,
                   ghost, interrupts, faults>>

\* lines 187-197: the tick reads current_time_us and takes a reference to
\* the array; nothing is copied
JobTickObstacle ==
    /\ pc # "exited"
    /\ sched_running
    /\ job = "obstacle"
    /\ job_pc = "idle"
    /\ ticks < MaxTicks
    /\ ticks' = ticks + 1
    /\ msg' = [kind |-> "OBSTACLE_DISTANCE", time_usec |-> current_time_us,
               distances |-> NoSectors,
               min_distance |-> MIN_DEPTH_CM, max_distance |-> MAX_DEPTH_CM,
               current_distance |-> 0,
               increment_f |-> INCREMENT_F, angle_offset |-> ANGLE_OFFSET,
               time_cycle |-> stamp_cycle, sector_cycle |-> NoSectors]
    /\ job_i' = 0
    /\ job_pc' = "send_mavlink"
    /\ UNCHANGED <<pc, config, input, drops, conn, shared, acq, units, link, ending, ghost,
                   interrupts, faults>>

\* the end of the step of the serialisation that starts at sector lo
StepEnd(lo) ==
    IF lo + SectorsPerStep < DISTANCES_ARRAY_LEN
    THEN lo + SectorsPerStep
    ELSE DISTANCES_ARRAY_LEN

\* lines 199-200: send_mavlink serialises the array it was given a reference
\* to, element after element, and hands the bytes to the link
JobSendObstacle ==
    /\ pc # "exited"
    /\ job_pc = "send_mavlink"
    /\ msg.kind = "OBSTACLE_DISTANCE"
    /\ LET packed ==
               [msg EXCEPT
                  !.distances = [i \in Sectors |->
                                   IF job_i <= i /\ i < StepEnd(job_i)
                                   THEN distances[i] ELSE msg.distances[i]],
                  !.sector_cycle = [i \in Sectors |->
                                      IF job_i <= i /\ i < StepEnd(job_i)
                                      THEN written_by[i] ELSE msg.sector_cycle[i]]]
       IN  IF StepEnd(job_i) = DISTANCES_ARRAY_LEN
           THEN /\ last_msg' = packed
                /\ sent' = sent + 1
                /\ msg' = NoMsg
                /\ job_i' = 0
                /\ job_pc' = "idle"
           ELSE /\ msg' = packed
                /\ job_i' = StepEnd(job_i)
                /\ UNCHANGED <<last_msg, sent, job_pc>>
    /\ UNCHANGED <<pc, config, input, drops, conn, shared, acq, units, gcs_log, ending, ghost,
                   counters>>

\* line 207, mutated: the centre sector alone
CurrDist_Centre(d) == d[35]

\* line 207: int(np.mean(distances[33:38])); the mean of five uint16 values
\* has a fraction of 0, .2, .4, .6 or .8, so int() yields the quotient
CurrDist(d) == (d[33] + d[34] + d[35] + d[36] + d[37]) \div 5

\* lines 204-217: the tick reads the array once, at line 207, and encodes
\* the message with the number it computed
JobTickSensor ==
    /\ pc # "exited"
    /\ sched_running
    /\ job = "sensor"
    /\ job_pc = "idle"
    /\ ticks < MaxTicks
    /\ ticks' = ticks + 1
    /\ msg' = [NoMsg EXCEPT !.kind = "DISTANCE_SENSOR",
                            !.min_distance = MIN_DEPTH_CM,
                            !.max_distance = MAX_DEPTH_CM,
                            !.current_distance = CurrDist(distances)]
    /\ job_pc' = "send_mavlink"
    /\ UNCHANGED <<pc, config, input, drops, conn, shared, acq, units, job_i, link, ending,
                   ghost, interrupts, faults>>

\* lines 219-220: the encoded message is handed to the link
JobSendSensor ==
    /\ pc # "exited"
    /\ job_pc = "send_mavlink"
    /\ msg.kind = "DISTANCE_SENSOR"
    /\ last_msg' = msg
    /\ sent' = sent + 1
    /\ msg' = NoMsg
    /\ job_pc' = "idle"
    /\ UNCHANGED <<pc, config, input, drops, conn, shared, acq, units, job_i, gcs_log,
                   ending, ghost, counters>>

(***************************************************************************)
(* A job whose call raises.  Neither job function has a try statement, so  *)
(* an exception of send_mavlink leaves the function before flush is        *)
(* reached: the function has handed nothing to the link and has assigned   *)
(* no variable of the script.  That much is the source's.                  *)
(*                                                                         *)
(* What becomes of the job after the exception has left the function is    *)
(* decided by the scheduler library (apscheduler, imported at line 32),    *)
(* whose code is not part of the source.  AfterSendError models it from    *)
(* the specification's LinkWriteError entry: the failure is logged, the    *)
(* publication cycle of that job is dropped, the next tick proceeds        *)
(* normally and the scheduler is never crashed.                            *)
(***************************************************************************)
\* specification, LinkWriteError: the job is kept and waits for its next tick
AfterSendError == "idle"

\* mutated: the job function catches the exception and sends the message
\* again at once, so that the failing tick's message reaches the link
JobSendObstacleError_Resent ==
    /\ pc # "exited"
    /\ job_pc = "send_mavlink"
    /\ msg.kind = "OBSTACLE_DISTANCE"
    /\ faults < MaxFaults
    /\ faults' = faults + 1
    /\ dropped' = dropped + 1
    /\ dropped_tick' = ticks
    /\ last_msg' = msg
    /\ sent' = sent + 1
    /\ msg' = NoMsg
    /\ job_i' = 0
    /\ job_pc' = AfterSendError
    /\ UNCHANGED <<pc, config, input, conn, shared, acq, units, gcs_log, ending, ghost,
                   interrupts, ticks>>

\* lines 187-199: send_mavlink raises before the message has left
JobSendObstacleError ==
    /\ pc # "exited"
    /\ job_pc = "send_mavlink"
    /\ msg.kind = "OBSTACLE_DISTANCE"
    /\ faults < MaxFaults
    /\ faults' = faults + 1
    /\ dropped' = dropped + 1
    /\ dropped_tick' = ticks
    /\ msg' = NoMsg
    /\ job_i' = 0
    /\ job_pc' = AfterSendError
    /\ UNCHANGED <<pc, config, input, conn, shared, acq, units, link, ending, ghost,
                   interrupts, ticks>>

\* lines 219-220: send_mavlink raises before the forward-distance message has
\* left
JobSendSensorError ==
    /\ pc # "exited"
    /\ job_pc = "send_mavlink"
    /\ msg.kind = "DISTANCE_SENSOR"
    /\ faults < MaxFaults
    /\ faults' = faults + 1
    /\ dropped' = dropped + 1
    /\ dropped_tick' = ticks
    /\ msg' = NoMsg
    /\ job_pc' = AfterSendError
    /\ UNCHANGED <<pc, config, input, conn, shared, acq, units, job_i, link, ending,
                   ghost, interrupts, ticks>>

(***************************************************************************)
(* The keyboard thread, user_input_monitor, lines 338-357.                 *)
(***************************************************************************)
\* what the operator may type: Enter alone, or something else
Lines == {"", "x"}

\* lines 239-249: the message goes to the link only while
\* is_vehicle_connected is set
set_default_global_origin ==
    IF is_vehicle_connected THEN origin_sent + 1 ELSE origin_sent

\* lines 252-278
set_default_home_position ==
    IF is_vehicle_connected THEN home_sent + 1 ELSE home_sent

\* lines 340-342: the top of the loop body with the flag set
InputTopAuto ==
    /\ pc # "exited"
    /\ in_pc = "top"
    /\ enable_auto_set_ekf_home
    /\ gcs_log' = send_msg_to_gcs("Set EKF home with default GPS location")
    /\ auto_fired' = auto_fired + 1
    /\ in_pc' = "auto_origin"
    /\ UNCHANGED <<pc, config, enable_auto_set_ekf_home, inputs, enter_fired,
                   origin_sent, home_sent, drops, conn, shared, acq, units,
                   jobvars, last_msg, sent, ending, ghost, counters>>

\* lines 340-341, 349: the top of the loop body with the flag clear
InputTopSkip ==
    /\ pc # "exited"
    /\ in_pc = "top"
    /\ ~enable_auto_set_ekf_home
    /\ in_pc' = "input"
    /\ UNCHANGED <<pc, config, enable_auto_set_ekf_home, inputs, auto_fired,
                   enter_fired, origin_sent, home_sent, drops, conn, shared, acq,
                   units, jobvars, link, ending, ghost, counters>>

\* lines 343 and 353
InputSetOrigin ==
    /\ pc # "exited"
    /\ in_pc \in {"auto_origin", "enter_origin"}
    /\ origin_sent' = set_default_global_origin
    /\ in_pc' = IF in_pc = "auto_origin" THEN "auto_home" ELSE "enter_home"
    /\ UNCHANGED <<pc, config, enable_auto_set_ekf_home, inputs, auto_fired,
                   enter_fired, home_sent, drops, conn, shared, acq, units,
                   jobvars, link, ending, ghost, counters>>

\* lines 344 and 354; after line 354 the loop starts over
InputSetHome ==
    /\ pc # "exited"
    /\ in_pc \in {"auto_home", "enter_home"}
    /\ home_sent' = set_default_home_position
    /\ in_pc' = IF in_pc = "auto_home" THEN "auto_sleep" ELSE "top"
    /\ UNCHANGED <<pc, config, enable_auto_set_ekf_home, inputs, auto_fired,
                   enter_fired, origin_sent, drops, conn, shared, acq, units,
                   jobvars, link, ending, ghost, counters>>

\* line 345
InputSleep ==
    /\ pc # "exited"
    /\ in_pc = "auto_sleep"
    /\ in_pc' = "input"
    /\ UNCHANGED <<pc, config, enable_auto_set_ekf_home, inputs, auto_fired,
                   enter_fired, origin_sent, home_sent, drops, conn, shared, acq,
                   units, jobvars, link, ending, ghost, counters>>

\* lines 350-351, 355-356: input() returns the line the operator typed; the
\* loop starts over after a line that is not empty
InputLine ==
    /\ pc # "exited"
    /\ in_pc = "input"
    /\ inputs < MaxInputs
    /\ inputs' = inputs + 1
    /\ \E c \in Lines : in_pc' = IF c = "" THEN "enter" ELSE "top"
    /\ UNCHANGED <<pc, config, enable_auto_set_ekf_home, auto_fired, enter_fired,
                   origin_sent, home_sent, drops, conn, shared, acq, units,
                   jobvars, link, ending, ghost, counters>>

\* line 352: the text of the triple that Enter asks for
InputEnter ==
    /\ pc # "exited"
    /\ in_pc = "enter"
    /\ gcs_log' = send_msg_to_gcs("Set EKF home with default GPS location")
    /\ enter_fired' = enter_fired + 1
    /\ in_pc' = "enter_origin"
    /\ UNCHANGED <<pc, config, enable_auto_set_ekf_home, inputs, auto_fired,
                   origin_sent, home_sent, drops, conn, shared, acq, units,
                   jobvars, last_msg, sent, ending, ghost, counters>>

\* lines 350, 357: input() raises IOError; the loop starts over
InputIOError ==
    /\ pc # "exited"
    /\ in_pc = "input"
    /\ faults < MaxFaults
    /\ faults' = faults + 1
    /\ in_pc' = "top"
    /\ UNCHANGED <<pc, config, enable_auto_set_ekf_home, inputs, auto_fired,
                   enter_fired, origin_sent, home_sent, drops, conn, shared, acq,
                   units, jobvars, link, ending, ghost, interrupts, ticks>>

\* line 350: the terminal is closed and input() raises EOFError, which
\* line 357 does not catch: the thread ends
InputEOF ==
    /\ pc # "exited"
    /\ in_pc = "input"
    /\ in_pc' = "ended"
    /\ UNCHANGED <<pc, config, enable_auto_set_ekf_home, inputs, auto_fired,
                   enter_fired, origin_sent, home_sent, drops, conn, shared, acq,
                   units, jobvars, link, ending, ghost, counters>>

(***************************************************************************)
(* The program: the main thread, the scheduler's job and the keyboard      *)
(* thread, whose steps interleave.                                         *)
(***************************************************************************)
Next ==
    \/ CallVehicleConnect
    \/ VehicleConnectOk
    \/ VehicleConnected
    \/ VehicleConnectError
    \/ VehicleConnectRetry
    \/ MsgConnecting
    \/ RealsensePipeCreate
    \/ RealsensePipeStart
    \/ RealsenseConnectOk
    \/ RealsenseConnectError
    \/ MsgConnected
    \/ ThreadStart
    \/ SchedStart
    \/ AddObstacleJob
    \/ AddSensorJob
    \/ MsgSending
    \/ EnterLoop
    \/ NothingToDo
    \/ NothingPipeStop
    \/ NothingVehicleClose
    \/ NothingExit
    \/ WaitForFramesOk
    \/ WaitForFramesEmpty
    \/ WaitForFramesError
    \/ Timestamp
    \/ Filters
    \/ Extract
    \/ Debug
    \/ ExceptKeyboardInterrupt
    \/ ExceptFlush
    \/ ExceptException
    \/ FinallyPipeStop
    \/ FinallyVehicleClose
    \/ FinallyExit
    \/ InterruptInVehicleConnect
    \/ InterruptInMainLoop
    \/ InterruptInHandler
    \/ InterruptUncaught
    \/ JobTickObstacle
    \/ JobSendObstacle
    \/ JobTickSensor
    \/ JobSendSensor
    \/ JobSendObstacleError
    \/ JobSendSensorError
    \/ InputTopAuto
    \/ InputTopSkip
    \/ InputSetOrigin
    \/ InputSetHome
    \/ InputSleep
    \/ InputLine
    \/ InputEnter
    \/ InputIOError
    \/ InputEOF

Spec == Init /\ [][Next]_vars

(***************************************************************************)
(* The acquisition loop by itself, over more frames: the state in which    *)
(* the main thread first reaches line 411 with the obstacle job added, and *)
(* the steps of the loop's iterations.                                     *)
(***************************************************************************)
InitExtract ==
    /\ pc = "wait_for_frames"
    /\ enable_msg_obstacle_distance = TRUE
    /\ enable_msg_distance_sensor = FALSE
    /\ vehicle = "open"
    /\ is_vehicle_connected = TRUE
    /\ pipe = "started"
    /\ depth_scale \in DepthScales
    /\ distances = InitialDistances
    /\ current_time_us = 0
    /\ depth_mat = NoFrame
    /\ now = 1
    /\ sched_running = TRUE
    /\ job = "obstacle"
    /\ input_thread_started = TRUE
    /\ job_pc = "idle"
    /\ msg = NoMsg
    /\ job_i = 0
    /\ last_msg = NoMsg
    /\ sent = 0
    /\ gcs_log = <<"Connecting to camera...", "Camera connected.",
                   "Sending obstacle distance messages to FCU">>
    /\ raised = "none"
    /\ exit_code = -1
    /\ cycle = 0
    /\ stamp_cycle = 0
    /\ written_by = NoSectors
    /\ extracted = 0
    /\ swallowed = 0
    /\ interrupts = 0
    /\ faults = 0
    /\ ticks = 0
    /\ enable_auto_set_ekf_home = FALSE
    /\ in_pc = "top"
    /\ inputs = 0
    /\ auto_fired = 0
    /\ enter_fired = 0
    /\ origin_sent = 0
    /\ home_sent = 0
    /\ dropped = 0
    /\ dropped_tick = 0

NextExtract ==
    \/ WaitForFramesOk
    \/ WaitForFramesEmpty
    \/ Timestamp
    \/ FiltersFrom(ExtractFrames)
    \/ Extract
    \/ Debug

SpecExtract == InitExtract /\ [][NextExtract]_vars

(***************************************************************************)
(* The forward-distance job beside the acquisition loop: the state in      *)
(* which the main thread first reaches line 411 with that job added, the   *)
(* steps of the loop on frames that differ in the centre sectors, and the  *)
(* ticks of the job.                                                       *)
(***************************************************************************)
\* frames whose sectors 33..37 come to 150 150 150 150 160, to
\* 150 150 150 150 153, to 150 150 150 153 153 and to 153 153 150 150 150 cm
SensorFrames ==
    {Full(1505, 1605, 325), Full(1505, 1535, 325), Full(1505, 1535, 320),
     Half(1535, 1505, 155)}

InitSensor ==
    /\ pc = "wait_for_frames"
    /\ enable_msg_obstacle_distance = FALSE
    /\ enable_msg_distance_sensor = TRUE
    /\ vehicle = "open"
    /\ is_vehicle_connected = TRUE
    /\ pipe = "started"
    /\ depth_scale \in DepthScales
    /\ distances = InitialDistances
    /\ current_time_us = 0
    /\ depth_mat = NoFrame
    /\ now = 1
    /\ sched_running = TRUE
    /\ job = "sensor"
    /\ input_thread_started = TRUE
    /\ job_pc = "idle"
    /\ msg = NoMsg
    /\ job_i = 0
    /\ last_msg = NoMsg
    /\ sent = 0
    /\ gcs_log = <<"Connecting to camera...", "Camera connected.",
                   "Sending distance sensor messages to FCU">>
    /\ raised = "none"
    /\ exit_code = -1
    /\ cycle = 0
    /\ stamp_cycle = 0
    /\ written_by = NoSectors
    /\ extracted = 0
    /\ swallowed = 0
    /\ interrupts = 0
    /\ faults = 0
    /\ ticks = 0
    /\ enable_auto_set_ekf_home = FALSE
    /\ in_pc = "top"
    /\ inputs = 0
    /\ auto_fired = 0
    /\ enter_fired = 0
    /\ origin_sent = 0
    /\ home_sent = 0
    /\ dropped = 0
    /\ dropped_tick = 0

NextSensor ==
    \/ WaitForFramesOk
    \/ WaitForFramesEmpty
    \/ Timestamp
    \/ FiltersFrom(SensorFrames)
    \/ Extract
    \/ Debug
    \/ JobTickSensor
    \/ JobSendSensor
    \/ JobSendSensorError

SpecSensor == InitSensor /\ [][NextSensor]_vars

(***************************************************************************)
(* The keyboard thread by itself: the state in which line 390 has started  *)
(* it, with the auto-set flag either way, and the steps of its loop.       *)
(***************************************************************************)
InitInput ==
    /\ pc = "sched_start"
    /\ enable_msg_obstacle_distance \in BOOLEAN
    /\ enable_msg_distance_sensor \in BOOLEAN
    /\ vehicle = "open"
    /\ is_vehicle_connected = TRUE
    /\ pipe = "started"
    /\ depth_scale \in DepthScales
    /\ distances = InitialDistances
    /\ current_time_us = 0
    /\ depth_mat = NoFrame
    /\ now = 1
    /\ sched_running = FALSE
    /\ job = "none"
    /\ input_thread_started = TRUE
    /\ job_pc = "idle"
    /\ msg = NoMsg
    /\ job_i = 0
    /\ last_msg = NoMsg
    /\ sent = 0
    /\ gcs_log = <<"Connecting to camera...", "Camera connected.">>
    /\ raised = "none"
    /\ exit_code = -1
    /\ cycle = 0
    /\ stamp_cycle = 0
    /\ written_by = NoSectors
    /\ extracted = 0
    /\ swallowed = 0
    /\ interrupts = 0
    /\ faults = 0
    /\ ticks = 0
    /\ enable_auto_set_ekf_home \in BOOLEAN
    /\ in_pc = "top"
    /\ inputs = 0
    /\ auto_fired = 0
    /\ enter_fired = 0
    /\ origin_sent = 0
    /\ home_sent = 0
    /\ dropped = 0
    /\ dropped_tick = 0

NextInput ==
    \/ InputTopAuto
    \/ InputTopSkip
    \/ InputSetOrigin
    \/ InputSetHome
    \/ InputSleep
    \/ InputLine
    \/ InputEnter
    \/ InputIOError
    \/ InputEOF

SpecInput == InitInput /\ [][NextInput]_vars

(***************************************************************************)
(* What the claims speak of.                                               *)
(***************************************************************************)
\* whether one of the n lowest bits of m is set
AnyLowBit(m, n) ==
    \/ \E j \in 1 .. 5 : j <= n \div 14 /\ m[j] # 0
    \/ n \div 14 < 5 /\ m[(n \div 14) + 1] % 2^(n % 14) # 0

\* the integer nearest to a double 0 <= x < 2^16, ties to even (Python's
\* round)
FRound(x) ==
    IF x.e < -53 THEN 0
    ELSE LET s == Shr(x.m, (0 - x.e) - 1)
             twice == s[1] + s[2] * Limb
             whole == twice \div 2
             up == /\ twice % 2 = 1
                   /\ AnyLowBit(x.m, (0 - x.e) - 1) \/ whole % 2 = 1
         IN  IF up THEN whole + 1 ELSE whole

\* the raw sample the specification names for sector i: row height/2,
\* column floor(i * width / N)
SpecSample(i) ==
    Pixel(depth_mat, depth_mat.height \div 2,
          (i * depth_mat.width) \div DISTANCES_ARRAY_LEN)

\* v * depth_scale for that sample, in metres
SpecDistM(i) == FMul(depth_scale, SpecSample(i))

\* v * depth_scale is below min_range_m or above max_range_m
SpecOutOfRange(i) ==
    FLess(SpecDistM(i), DEPTH_RANGE[1]) \/ FLess(DEPTH_RANGE[2], SpecDistM(i))

\* distances holds the outcome of extracting depth_mat
JustExtracted == pc = "debug"

\* the job handed an obstacle-distance message to the link
ObstacleSent == last_msg.kind = "OBSTACLE_DISTANCE"

\* the cycles that wrote the elements of that message (0: the initial array)
ElementCycles == {last_msg.sector_cycle[i] : i \in Sectors}

\* C1: no obstacle-distance message handed to the link mixes elements that
\* two different acquisition cycles wrote.
C1_NoTornRead ==
    ObstacleSent => Cardinality(ElementCycles \ {0}) <= 1

\* C2: as long as no extraction has completed, no distance message has been
\* handed to the link.
C2_NotReadyNoOp ==
    extracted = 0 => sent = 0

\* C3: a message whose timestamp was taken in an acquisition cycle and whose
\* array is wholly the array of one acquisition cycle has both from the same
\* cycle.
C3_TimestampPairsArray ==
    (/\ ObstacleSent
     /\ last_msg.time_cycle >= 1
     /\ \E k \in 1 .. cycle : ElementCycles = {k})
        => ElementCycles = {last_msg.time_cycle}

\* C4: the shared array always has DISTANCES_ARRAY_LEN elements, each from
\* MIN_DEPTH_CM to MAX_DEPTH_CM + 1, so none is zero.
C4_RangeInvariant ==
    /\ DOMAIN distances = Sectors
    /\ Cardinality(DOMAIN distances) = DISTANCES_ARRAY_LEN
    /\ \A i \in Sectors :
          /\ MIN_DEPTH_CM <= distances[i]
          /\ distances[i] <= MAX_DEPTH_CM + 1
          /\ distances[i] # 0

\* C4's case: two extractions done, the array holds the least distance next
\* to an ordinary one
C4_Witness ==
    /\ extracted >= 2
    /\ distances[0] = MIN_DEPTH_CM
    /\ distances[DISTANCES_ARRAY_LEN - 1] < MAX_DEPTH_CM

\* C5: after an extraction, every sector whose sample is out of range holds
\* MAX_DEPTH_CM + 1, which is 801, and not the computed distance.
C5_SentinelPolicy ==
    JustExtracted =>
        \A i \in Sectors :
            SpecOutOfRange(i) =>
                distances[i] = MAX_DEPTH_CM + 1 /\ distances[i] = 801

\* C5's case: a frame of raw 8000 (in range) left and 8001 (too far) right
\* at one millimetre per unit, extracted
C5_Witness ==
    /\ JustExtracted
    /\ depth_scale = Scale_1mm
    /\ SpecSample(DISTANCES_ARRAY_LEN - 1) = 8001
    /\ SpecOutOfRange(DISTANCES_ARRAY_LEN - 1)
    /\ distances[0] = 800
    /\ distances[DISTANCES_ARRAY_LEN - 1] = 801

\* C6: after an extraction, every sector whose sample is in range holds
\* round(v * depth_scale * 100), the nearest integer.
C6_InRangeRounds ==
    JustExtracted =>
        \A i \in Sectors :
            ~SpecOutOfRange(i) => distances[i] = FRound(FMul(SpecDistM(i), 100))

\* C7: when the process has ended (by a failure to connect the camera,
\* with nothing to publish, or out of the main loop by an interrupt or an
\* exception), the camera stream is not left started and the vehicle link
\* is not left open.
C7_ReleasedOnExit ==
    (pc = "exited" /\ (interrupts = 0 \/ job # "none"))
        => pipe # "started" /\ vehicle # "open"

\* C8: an interrupt is never swallowed: the step that delivers it puts the
\* main thread on the way out (a handler, the finally block, the exit), and
\* if it ends the process at once, nothing is left started or open.
C8_InterruptStops ==
    [][interrupts' = interrupts + 1 =>
          /\ pc' \in {"except_KeyboardInterrupt", "finally_pipe_stop", "exited"}
          /\ pc' = "exited" => pipe' # "started" /\ vehicle' # "open"]_vars

\* C9: once the acquisition loop has been entered (a job was added), only an
\* operator interrupt ends the process: a frame-wait error does not.
C9_TransientErrorsContained ==
    (pc = "exited" /\ job # "none") => interrupts > 0

\* neither message is enabled
NothingConfigured ==
    ~enable_msg_obstacle_distance /\ ~enable_msg_distance_sensor

\* the main thread is in the acquisition loop, its handlers or its finally
\* block
InOrAfterMainLoop ==
    pc \in {"wait_for_frames", "timestamp", "filters", "extract", "debug",
            "except_KeyboardInterrupt", "except_flush", "except_Exception",
            "finally_pipe_stop", "finally_vehicle_close", "finally_exit"}

\* C10 as stated: with nothing configured, the scheduler is never started
\* and no other concurrent unit is.
C10_NothingStarted ==
    NothingConfigured => ~sched_running /\ ~input_thread_started

\* the explanatory text of line 401 has been handed to the link
NothingToDoReported ==
    \E k \in DOMAIN gcs_log :
        gcs_log[k] = "Nothing to do. Check params to enable something"

\* C10 as amended: with nothing configured, no job is ever added and no
\* distance message sent, the acquisition loop is never entered, and a run
\* that reaches the check of the flags reports "Nothing to do...", stops the
\* pipe, closes the link and exits; by then the scheduler and the keyboard
\* thread have been started.
C10_NoJobNoLoop ==
    NothingConfigured =>
        /\ job = "none" /\ job_pc = "idle" /\ sent = 0
        /\ ~InOrAfterMainLoop /\ pc \notin {"msg_sending", "enter_loop"}
        /\ pc \in {"nothing_pipe_stop", "nothing_vehicle_close", "nothing_exit"}
              => /\ sched_running /\ input_thread_started
                 /\ NothingToDoReported
        /\ (pc = "exited" /\ exit_code = 0)
              => /\ sched_running /\ input_thread_started
                 /\ NothingToDoReported
                 /\ pipe = "stopped" /\ vehicle = "closed"

\* C10's case: nothing configured, and the process has gone through the
\* nothing-to-do branch to its exit
C10_Witness ==
    /\ NothingConfigured
    /\ NothingToDoReported
    /\ pc = "exited" /\ exit_code = 0
    /\ sched_running /\ input_thread_started
    /\ pipe = "stopped" /\ vehicle = "closed"

\* C11: the process ends with status 0 only after an operator's interrupt
\* shut down a run that was publishing: not after an exception ended the
\* main loop, and not when no job is configured.
C11_ExitStatus ==
    (pc = "exited" /\ exit_code = 0)
        => raised = "KeyboardInterrupt" /\ job # "none"

\* C12: a failure of the camera connect operation never ends the process:
\* the step in which pipe.start raises leaves the process running.
C12_CameraConnectRetries ==
    [][(pc = "pipe_start" /\ raised' = "RuntimeError")
          => pc' # "exited" /\ exit_code' = -1]_vars

\* the status texts of the handlers of the main loop, lines 467 and 474
ShutdownTexts == {"Closing the script...", "ERROR: Depth camera disconnected"}

\* C15: when a run that entered the main loop has closed the vehicle link,
\* one of the status texts of the shutdown path has been handed to the link.
C15_FinalStatus ==
    (vehicle = "closed" /\ job # "none" /\ is_vehicle_connected)
        => \E k \in DOMAIN gcs_log : gcs_log[k] \in ShutdownTexts

C14_Cadence ==
    /\ sent + dropped <= ticks
    /\ ticks <= sent + dropped + 1
    /\ job_pc = "idle" => ticks = sent + dropped
    /\ (pc # "exited" /\ sched_running /\ job # "none" /\ job_pc = "idle"
            /\ ticks < MaxTicks)
          => ENABLED (JobTickObstacle \/ JobTickSensor)

\* C14's case: the main thread waits for a frame; the first message carried
\* the array of the one cycle so far, and the second tick has fired with no
\* new array and no new timestamp since
C14_Witness ==
    /\ pc = "wait_for_frames"
    /\ cycle = 1 /\ extracted = 1
    /\ ticks = 2 /\ sent = 1 /\ dropped = 0
    /\ ObstacleSent /\ ElementCycles = {1}
    /\ job_pc = "send_mavlink" /\ msg.time_cycle = 1

\* the keyboard thread is between two triples
BetweenTriples == in_pc \in {"top", "input", "enter", "ended"}

\* C16: the automatic trigger fires at most once, and exactly once when the
\* flag is set and the thread has passed it; the triples issued are the
\* automatic one and one for each Enter, complete between two triples.
C16_AutoSetOnce ==
    /\ auto_fired <= 1
    /\ (enable_auto_set_ekf_home /\ in_pc # "top") => auto_fired = 1
    /\ ~enable_auto_set_ekf_home => auto_fired = 0
    /\ enter_fired <= inputs
    /\ BetweenTriples =>
          /\ origin_sent = auto_fired + enter_fired
          /\ home_sent = auto_fired + enter_fired

\* the sum of sectors 33..37 of the shared array
CentreSum ==
    distances[33] + distances[34] + distances[35] + distances[36] + distances[37]

\* the step in which a tick of the forward-distance job reads the array and
\* encodes its message
SensorTick == job = "sensor" /\ ticks' = ticks + 1

\* the step in which that tick's call of send_mavlink returns
SensorSend ==
    job = "sensor" /\ job_pc = "send_mavlink" /\ job_pc' = "idle" /\ dropped' = dropped

\* C17 as stated: a tick of the forward-distance job encodes a message whose
\* current_distance is the integer nearest to the mean of sectors 33..37 of
\* the array it reads, hands over exactly that one message, and leaves the
\* array as it was.
C17_MeanRounded ==
    /\ [][SensorTick =>
             /\ msg'.kind = "DISTANCE_SENSOR"
             /\ 2 * CentreSum - 5 <= 10 * msg'.current_distance
             /\ 10 * msg'.current_distance <= 2 * CentreSum + 5
             /\ distances' = distances]_vars
    /\ [][SensorSend =>
             /\ sent' = sent + 1 /\ last_msg' = msg
             /\ distances' = distances]_vars
    /\ []((job = "sensor" /\ job_pc = "idle") => sent + dropped = ticks)

\* C17 as amended: the same with current_distance the mean of sectors
\* 33..37 cut to its whole part: current_distance <= mean < current_distance + 1.
C17_MeanTruncated ==
    /\ [][SensorTick =>
             /\ msg'.kind = "DISTANCE_SENSOR"
             /\ 5 * msg'.current_distance <= CentreSum
             /\ CentreSum < 5 * msg'.current_distance + 5
             /\ distances' = distances /\ sent' = sent]_vars
    /\ [][SensorSend =>
             /\ sent' = sent + 1 /\ last_msg' = msg
             /\ distances' = distances]_vars
    /\ []((job = "sensor" /\ job_pc = "idle") => sent = ticks - dropped)

\* C17's case: over sectors 150 150 150 150 153 (mean 150.6) the job has
\* sent 150
C17_Witness ==
    /\ last_msg.kind = "DISTANCE_SENSOR"
    /\ sent >= 1
    /\ distances[33] = 150 /\ distances[34] = 150 /\ distances[35] = 150
    /\ distances[36] = 150 /\ distances[37] = 153
    /\ last_msg.current_distance = 150

\* a double 0 <= x < 2^26 is a whole number of halves
InHalves(x) ==
    LET twice == FMul(x, 2)
    IN  twice.e >= 0 \/ ~AnyLowBit(twice.m, 0 - twice.e)

\* that number of halves
Halves(x) == FTrunc(FMul(x, 2))

\* the double N * increment_f of the message sent last
SpanOfSectors == FMul(last_msg.increment_f, DISTANCES_ARRAY_LEN)

\* twice the double angle_offset + N * increment_f of the message sent
\* last; a sum of whole numbers of halves is exact
TwiceEndAngle ==
    last_msg.angle_offset.sign * Halves(last_msg.angle_offset.abs)
        + Halves(SpanOfSectors)

\* angle_offset of the message sent last is -HFOV / 2
OffsetIsMinusHalfFov ==
    /\ last_msg.angle_offset.sign = -1
    /\ InHalves(last_msg.angle_offset.abs)
    /\ Halves(last_msg.angle_offset.abs) = HFOV

\* C18 as stated: in every obstacle-distance message sent,
\* angle_offset + N * increment_f is HFOV and angle_offset is -HFOV / 2.
C18_GeometryAsStated ==
    ObstacleSent =>
        /\ InHalves(SpanOfSectors)
        /\ TwiceEndAngle = 2 * HFOV
        /\ OffsetIsMinusHalfFov

\* C18 as amended: in every obstacle-distance message sent, N * increment_f
\* is HFOV and angle_offset is -HFOV / 2, so that
\* angle_offset + N * increment_f is +HFOV / 2.
C18_Geometry ==
    ObstacleSent =>
        /\ InHalves(SpanOfSectors)
        /\ Halves(SpanOfSectors) = 2 * HFOV
        /\ TwiceEndAngle = HFOV
        /\ OffsetIsMinusHalfFov

\* C18's case: an obstacle-distance message has been sent with the two
\* constants in it
C18_Witness ==
    /\ ObstacleSent
    /\ last_msg.increment_f = INCREMENT_F
    /\ last_msg.angle_offset = ANGLE_OFFSET
    /\ sent >= 1

\* the step of an iteration whose frame set has no depth frame
DegradedIteration ==
    pc = "wait_for_frames" /\ now' = now + 1 /\ faults' = faults + 1

\* the step in which a tick of the obstacle job reads the shared data
TickReads == job = "obstacle" /\ job_pc = "idle" /\ job_pc' = "send_mavlink"

\* C19: an iteration without a depth frame changes neither the shared array
\* nor the shared timestamp and goes back to waiting for frames; while the
\* main thread waits for frames the shared timestamp and every element of
\* the array are those of the last accepted frame, and that is what a tick
\* then reads.
C19_DegradedIteration ==
    /\ [][DegradedIteration =>
             /\ distances' = distances
             /\ current_time_us' = current_time_us
             /\ stamp_cycle' = stamp_cycle /\ written_by' = written_by
             /\ cycle' = cycle /\ extracted' = extracted
             /\ pc' = "wait_for_frames"]_vars
    /\ []((pc = "wait_for_frames" /\ cycle >= 1) =>
             /\ stamp_cycle = cycle
             /\ \A i \in Sectors : written_by[i] = cycle)
    /\ [][(TickReads /\ pc = "wait_for_frames") =>
             /\ msg'.time_usec = current_time_us
             /\ msg'.time_cycle = cycle]_vars

\* C19's case: one frame was accepted, the next wait brought no depth frame
\* (the clock has moved past the timestamp with no second cycle), and a
\* tick has read the timestamp of the accepted frame
C19_Witness ==
    /\ pc = "wait_for_frames"
    /\ cycle = 1 /\ extracted = 1
    /\ now = current_time_us + 1
    /\ job_pc = "send_mavlink"
    /\ msg.time_cycle = 1 /\ msg.time_usec = current_time_us
    /\ \A i \in Sectors : written_by[i] = 1

\* C20: once the vehicle link is closed no message is handed to it again:
\* no distance message, no status text, no origin or home position.
C20_NoSendAfterClose ==
    [][vehicle = "closed" =>
          /\ sent' = sent
          /\ gcs_log' = gcs_log
          /\ origin_sent' = origin_sent
          /\ home_sent' = home_sent]_vars

====
